---- MODULE Spec2Model ----
(***************************************************************************)
(* State-machine model of the RFM69 driver (rfm69-rs/src/rfm69.rs).        *)
(*                                                                         *)
(* The driver is single-threaded; every transport access (one SPI          *)
(* transaction), every delay request and every reset-line access is one    *)
(* step.  `pc` is the position inside the operation being executed, `log`  *)
(* the accesses the operation has issued so far.  The transport, the       *)
(* delay and the chip are external: a read returns a value drawn from a    *)
(* small set, and any access may fail.                                     *)
(***************************************************************************)
EXTENDS Integers, Sequences, FiniteSets, TLC

VARIABLES
    current_mode,   \* Rfm69.current_mode: the cached operating mode
    tx_power,       \* Rfm69.tx_power: the cached power (i8)
    is_high_power,  \* Rfm69.is_high_power: the topology flag
    pc,             \* position in the running operation, "idle" between calls
    ret,            \* where set_mode returns to ("idle": called by the user)
    op,             \* the public operation running or last run
    result,         \* "none" while running, then "Ok" or the error kind
    value,          \* the Ok payload of the last operation (bool or count)
    mode,           \* set_mode's parameter
    local_mode,     \* set_mode's local byte read from the mode-control register
    data,           \* send's parameter
    buffer,         \* receive's parameter (the caller's [u8; 65])
    message_len,    \* receive's local
    log,            \* accesses issued by the running operation, in order
    polls,          \* not-ready polls seen in the current poll loop
    fifo,           \* bytes the chip's FIFO will return, in order
    air,            \* the payload whose frame was delivered into fifo, if any
    chip,           \* what the chip holds: its mode field and the two test-PA registers
    arg,            \* the other parameters and locals of the running operation, by name
    entry           \* the cached mode and power when the running operation was called

vars == <<current_mode, tx_power, is_high_power, pc, ret, op, result, value,
          mode, local_mode, data, buffer, message_len, log, polls, fifo, air,
          chip, arg, entry>>

driver == <<current_mode, tx_power, is_high_power>>

-----------------------------------------------------------------------------
(* Bounds of the model *)

\* not-ready answers a poll loop may see before the chip answers ready
MaxPolls == 2
\* longest payload handed to send in the framing specification
MaxPayload == 62
\* highest carrier frequency handed to set_frequency, in MHz
MaxFreq == 1023

-----------------------------------------------------------------------------
(* Byte arithmetic *)

Bit(x, i) == (x \div (2 ^ i)) % 2

\* u8 & u8
And8(a, b) ==
    LET f[i \in 0..8] ==
          IF i = 8 THEN 0 ELSE Bit(a, i) * Bit(b, i) * (2 ^ i) + f[i + 1]
    IN f[0]

\* u8 | u8
Or8(a, b) == a + b - And8(a, b)

\* !u8
Not8(a) == 255 - a

Bytes == 0..255

-----------------------------------------------------------------------------
(* Rfm69Mode and the register accesses *)

Modes == {"Sleep", "Standby", "Fs", "Tx", "Rx"}

\* `mode as u8`
ModeCode(m) ==
    CASE m = "Sleep"   -> 0
      [] m = "Standby" -> 4
      [] m = "Fs"      -> 8
      [] m = "Tx"      -> 12
      [] m = "Rx"      -> 16

\* One transport transaction as the log records it.
Write(reg, bytes, ok) == [kind |-> "write", reg |-> reg, bytes |-> bytes, ok |-> ok]
Read(reg, bytes, ok)  ==
    [kind |-> "read", reg |-> reg, bytes |-> IF ok THEN bytes ELSE <<>>, ok |-> ok]
Delay(unit, n)        == [kind |-> "delay", reg |-> unit, bytes |-> <<n>>, ok |-> TRUE]

\* Rfm69::read_register maps a transport failure to SpiWriteError.
ReadRegisterError == "SpiWriteError"
\* Rfm69::write_many / write_register
WriteError == "SpiWriteError"
\* Rfm69::read_many
ReadManyError == "SpiReadError"

Errors == {"ResetError", "SpiWriteError", "SpiReadError", "ConfigurationError",
           "MessageTooLarge", "InvalidMode"}

\* The operation fails: `?` hands the error to the caller at once.
Fail(err) ==
    /\ pc' = "idle"
    /\ ret' = "idle"
    /\ result' = err

-----------------------------------------------------------------------------
(* The chip, as far as the driver's accesses determine it *)

\* At power-up and after a reset pulse the chip is in Standby and its test-PA
\* registers hold the baseline values, the ones init writes back.
ChipPowerUp == [mode |-> ModeCode("Standby"), test_pa1 |-> 85, test_pa2 |-> 112]

\* The chip after a write: a mode-control write sets the mode field (bits
\* 2-4), a test-PA write the register; a write the transport reports as
\* failed is taken not to have reached the chip.
ChipWrite(c, reg, bytes, ok) ==
    IF ~ok THEN c
    ELSE IF reg = "OpMode" THEN [c EXCEPT !.mode = And8(bytes[1], 28)]
    ELSE IF reg = "TestPa1" THEN [c EXCEPT !.test_pa1 = bytes[1]]
    ELSE IF reg = "TestPa2" THEN [c EXCEPT !.test_pa2 = bytes[1]]
    ELSE c

-----------------------------------------------------------------------------
(* Rfm69::new *)

NoAir == [on |-> FALSE, payload |-> <<>>]

\* an operation whose parameters are all among mode, data and buffer
NoArg == [none |-> TRUE]

\* mutant: the driver is born asleep, with the non-boosted topology
NewDriver_Asleep == [tx_power |-> 13, is_high_power |-> FALSE, current_mode |-> "Sleep"]

\* mutant: the driver is built for the non-boosted topology
NewDriver_NonBoosted == [tx_power |-> 13, is_high_power |-> FALSE, current_mode |-> "Standby"]

\* the fields Rfm69::new fills with values of its own
NewDriver == [tx_power |-> 13, is_high_power |-> TRUE, current_mode |-> "Standby"]

Init ==
    /\ current_mode = NewDriver.current_mode
    /\ tx_power = NewDriver.tx_power
    /\ is_high_power = NewDriver.is_high_power
    /\ pc = "idle"
    /\ ret = "idle"
    /\ op = "new"
    /\ result = "Ok"
    /\ value = 0
    /\ mode = "Standby"
    /\ local_mode = 0
    /\ data = <<>>
    /\ buffer = <<>>
    /\ message_len = 0
    /\ log = <<>>
    /\ polls = 0
    /\ fifo = <<>>
    /\ air = NoAir
    /\ chip = ChipPowerUp
    /\ arg = NoArg
    /\ entry = [mode |-> "Standby", power |-> 13]

\* The fresh driver, about to apply a function of the program to one of `args`
Input(name, args) ==
    /\ current_mode = NewDriver.current_mode
    /\ tx_power = NewDriver.tx_power
    /\ is_high_power = NewDriver.is_high_power
    /\ pc = "idle"
    /\ ret = "idle"
    /\ op = name
    /\ result = "Ok"
    /\ value = 0
    /\ mode = "Standby"
    /\ local_mode = 0
    /\ data = <<>>
    /\ buffer = <<>>
    /\ message_len = 0
    /\ log = <<>>
    /\ polls = 0
    /\ fifo = <<>>
    /\ air = NoAir
    /\ chip = ChipPowerUp
    /\ arg \in args
    /\ entry = [mode |-> "Standby", power |-> 13]

\* A public operation starts; the driver runs one operation at a time.
\* The parameters and locals of the previous call are gone.
Begin(name, m, d, b) ==
    /\ pc = "idle"
    /\ op' = name
    /\ polls' = 0
    /\ mode' = m
    /\ data' = d
    /\ buffer' = b
    /\ local_mode' = 0
    /\ entry' = [mode |-> current_mode, power |-> tx_power]

\* The program aborts (a panic): nothing runs afterwards.
Abort ==
    /\ pc' = "aborted"
    /\ ret' = "idle"
    /\ result' = "panic"

-----------------------------------------------------------------------------
(* Rfm69::set_tx_power *)

\* `x as u8` of an i8
AsU8(x) == x % 256

\* i8 + i8 in a build without overflow checks
WrapI8(x) == ((x + 128) % 256) - 128

Clamp(x, lo, hi) == IF x < lo THEN lo ELSE IF x > hi THEN hi ELSE x

\* the addend of the output-power field chosen by set_tx_power
PaAddend(high, p) ==
    IF high
    THEN LET clamped_power == Clamp(p, -2, 20) IN
         IF clamped_power <= 13 THEN 18
         ELSE IF clamped_power >= 18 THEN 11 ELSE 14
    ELSE 18

\* the i8 value the addend is added to
PaBase(high, p) == IF high THEN p ELSE Clamp(p, -18, 13)

\* settings::RF_PALEVEL_PA0_ON, _PA1_ON, _PA2_ON and _OUTPUTPOWER_11111
RF_PALEVEL_PA0_ON == 128
RF_PALEVEL_PA1_ON == 64
RF_PALEVEL_PA2_ON == 32
RF_PALEVEL_OUTPUTPOWER_11111 == 31

\* mutant: the second amplifier is enabled in the boost range only
PaEnable_Pa2From18(high, p) ==
    IF high
    THEN IF Clamp(p, -2, 20) < 18 THEN RF_PALEVEL_PA1_ON
         ELSE Or8(RF_PALEVEL_PA1_ON, RF_PALEVEL_PA2_ON)
    ELSE RF_PALEVEL_PA0_ON

\* the PA enable bits chosen by set_tx_power
PaEnable(high, p) ==
    IF high
    THEN IF Clamp(p, -2, 20) <= 13 THEN RF_PALEVEL_PA1_ON
         ELSE Or8(RF_PALEVEL_PA1_ON, RF_PALEVEL_PA2_ON)
    ELSE RF_PALEVEL_PA0_ON

\* the i8 addition overflows: a panic with overflow checks, a wrap without
PaOverflows(high, p) == PaBase(high, p) + PaAddend(high, p) > 127

\* the pa_level byte of set_tx_power
PaLevel(high, p) ==
    Or8(PaEnable(high, p),
        And8(AsU8(WrapI8(PaBase(high, p) + PaAddend(high, p))),
             RF_PALEVEL_OUTPUTPOWER_11111))

\* mutant: the clamped power is cached
CachedPower_Clamped(p) == Clamp(p, -2, 20)

\* self.tx_power = tx_power
CachedPower(p) == p

SetTxPower(p, ok, overflow_checks) ==
    /\ Begin("set_tx_power", "Standby", <<>>, <<>>)
    /\ message_len' = 0
    /\ arg' = [tx_power |-> p]
    /\ value' = 0
    /\ IF PaOverflows(is_high_power, p) /\ overflow_checks
       THEN /\ Abort
            /\ log' = <<>>
            /\ tx_power' = tx_power
       ELSE /\ log' = <<Write("PaLevel", <<PaLevel(is_high_power, p)>>, ok)>>
            /\ pc' = "idle"
            /\ ret' = "idle"
            /\ IF ok
               THEN /\ tx_power' = CachedPower(p)
                    /\ result' = "Ok"
               ELSE /\ tx_power' = tx_power
                    /\ result' = WriteError
    /\ UNCHANGED <<current_mode, is_high_power, fifo, air, chip>>

-----------------------------------------------------------------------------
(* Rfm69::set_mode *)

\* set_mode returns Ok: to the user, or into the operation that called it.
SmReturn ==
    IF ret = "idle"
    THEN /\ pc' = "idle"
         /\ result' = "Ok"
         /\ ret' = "idle"
    ELSE /\ pc' = ret
         /\ result' = result
         /\ ret' = "idle"

SetModeCall(m) ==
    /\ Begin("set_mode", m, <<>>, <<>>)
    /\ message_len' = 0
    /\ arg' = NoArg
    /\ pc' = "sm_check"
    /\ ret' = "idle"
    /\ result' = "none"
    /\ value' = 0
    /\ log' = <<>>
    /\ UNCHANGED <<driver, fifo, air, chip>>

\* mutant: the boost threshold is off by one
TestPaValues_Above18(m, p) ==
    IF p > 18 /\ m = "Rx" THEN <<85, 112>>
    ELSE IF p > 18 /\ m = "Tx" THEN <<93, 124>>
    ELSE <<>>

\* the test-PA values set_mode writes for `m` with cached power `p`;
\* <<>> when it writes none
TestPaValues(m, p) ==
    IF p >= 18 /\ m = "Rx" THEN <<85, 112>>
    ELSE IF p >= 18 /\ m = "Tx" THEN <<93, 124>>
    ELSE <<>>

\* mutant: the early return is missing
AlreadyInMode_Never(cur, m) == FALSE

\* self.current_mode == mode
AlreadyInMode(cur, m) == cur = m

\* the early return and the match on the target
SmCheck ==
    /\ pc = "sm_check"
    /\ IF AlreadyInMode(current_mode, mode)
       THEN SmReturn
       ELSE /\ pc' = IF TestPaValues(mode, tx_power) = <<>> THEN "sm_read" ELSE "sm_pa1"
            /\ UNCHANGED <<ret, result>>
    /\ UNCHANGED <<driver, entry, op, value, mode, local_mode, data, buffer, message_len, arg,
                   log, polls, fifo, air, chip>>

SmTestPa1(ok) ==
    /\ pc = "sm_pa1"
    /\ log' = Append(log, Write("TestPa1", <<TestPaValues(mode, tx_power)[1]>>, ok))
    /\ IF ok THEN pc' = "sm_pa2" /\ UNCHANGED <<ret, result>> ELSE Fail(WriteError)
    /\ UNCHANGED <<driver, entry, op, value, mode, local_mode, data, buffer, message_len, arg,
                   polls, fifo, air>>
    /\ chip' = ChipWrite(chip, "TestPa1", <<TestPaValues(mode, tx_power)[1]>>, ok)

SmTestPa2(ok) ==
    /\ pc = "sm_pa2"
    /\ log' = Append(log, Write("TestPa2", <<TestPaValues(mode, tx_power)[2]>>, ok))
    /\ IF ok THEN pc' = "sm_read" /\ UNCHANGED <<ret, result>> ELSE Fail(WriteError)
    /\ UNCHANGED <<driver, entry, op, value, mode, local_mode, data, buffer, message_len, arg,
                   polls, fifo, air>>
    /\ chip' = ChipWrite(chip, "TestPa2", <<TestPaValues(mode, tx_power)[2]>>, ok)

SmReadOpMode(v, ok) ==
    /\ pc = "sm_read"
    /\ log' = Append(log, Read("OpMode", <<v>>, ok))
    /\ IF ok
       THEN /\ pc' = "sm_write"
            /\ local_mode' = v
            /\ UNCHANGED <<ret, result>>
       ELSE /\ Fail(ReadRegisterError)
            /\ local_mode' = local_mode
    /\ UNCHANGED <<driver, entry, op, value, mode, data, buffer, message_len, arg, polls, fifo, air, chip>>

\* mutant: the mode field is not cleared before the new code is ORed in
NewOpMode_NoClear(v, m) == Or8(v, And8(ModeCode(m), 28))

\* current_mode &= !0x1C; current_mode |= mode as u8 & 0x1C
NewOpMode(v, m) == Or8(And8(v, Not8(28)), And8(ModeCode(m), 28))

SmWriteOpMode(ok) ==
    /\ pc = "sm_write"
    /\ log' = Append(log, Write("OpMode", <<NewOpMode(local_mode, mode)>>, ok))
    /\ polls' = 0
    /\ local_mode' = 0
    /\ IF ok THEN pc' = "sm_poll" /\ UNCHANGED <<ret, result>> ELSE Fail(WriteError)
    /\ UNCHANGED <<driver, entry, op, value, mode, data, buffer, message_len, arg, fifo, air>>
    /\ chip' = ChipWrite(chip, "OpMode", <<NewOpMode(local_mode, mode)>>, ok)

\* mutant: any flag above bit 5 counts as mode ready
ModeReady_Bit6(v) == And8(v, 192) # 0

\* mutant: the loop waits for a value the masked byte never has
ModeReady_Never(v) == And8(v, 128) = 256

\* the mode-ready bit of IrqFlags1
ModeReady(v) == And8(v, 128) # 0

\* mutant: the mode is cached before the poll's outcome is looked at
SmPoll_CacheEarly(v, ok) ==
    /\ pc = "sm_poll"
    /\ ModeReady(v) \/ ~ok \/ polls < MaxPolls
    /\ log' = Append(log, Read("IrqFlags1", <<v>>, ok))
    /\ current_mode' = mode
    /\ IF ~ok
       THEN /\ Fail(ReadRegisterError)
            /\ UNCHANGED polls
       ELSE IF ModeReady(v)
       THEN /\ SmReturn
            /\ polls' = 0
       ELSE /\ pc' = "sm_delay"
            /\ polls' = polls + 1
            /\ UNCHANGED <<ret, result>>
    /\ UNCHANGED <<tx_power, is_high_power, entry, op, value, mode, local_mode, data,
                   buffer, message_len, arg, fifo, air, chip>>

\* one turn of the mode-ready loop; the last turn caches the mode
SmPoll(v, ok) ==
    /\ pc = "sm_poll"
    /\ ModeReady(v) \/ ~ok \/ polls < MaxPolls
    /\ log' = Append(log, Read("IrqFlags1", <<v>>, ok))
    /\ IF ~ok
       THEN /\ Fail(ReadRegisterError)
            /\ UNCHANGED <<current_mode, polls>>
       ELSE IF ModeReady(v)
       THEN /\ current_mode' = mode
            /\ SmReturn
            /\ polls' = 0
       ELSE /\ pc' = "sm_delay"
            /\ polls' = polls + 1
            /\ UNCHANGED <<current_mode, ret, result>>
    /\ UNCHANGED <<tx_power, is_high_power, entry, op, value, mode, local_mode, data, buffer,
                   message_len, arg, fifo, air, chip>>

SmDelay ==
    /\ pc = "sm_delay"
    /\ log' = Append(log, Delay("ms", 10))
    /\ pc' = "sm_poll"
    /\ UNCHANGED <<driver, ret, entry, op, result, value, mode, local_mode, data, buffer,
                   message_len, arg, polls, fifo, air, chip>>

-----------------------------------------------------------------------------
(* Rfm69::send and Rfm69::wait_packet_sent *)

\* mutant: the whole 65-byte buffer is written
Frame_Padded(d) ==
    [i \in 1..65 |-> IF i = 1 THEN (Len(d) + 4) % 256
                     ELSE IF i <= 3 THEN 255
                     ELSE IF i <= 5 THEN 0
                     ELSE IF i - 5 <= Len(d) THEN d[i - 5] ELSE 0]

\* buffer[0..data.len() + HEADER_LENGTH] as send builds it
Frame(d) == <<(Len(d) + 4) % 256, 255, 255, 0, 0>> \o d

\* mutant: the limit is the frame's 64 bytes instead of the payload's 60
TooLarge_Frame(d) == Len(d) > 64

\* data.len() > 60
TooLarge(d) == Len(d) > 60

\* the length check and the FIFO burst; the chip has one FIFO, so the
\* outgoing frame takes the place of whatever the radio had received
SendCall(d, ok) ==
    /\ Begin("send", IF ~TooLarge(d) /\ ok THEN "Tx" ELSE "Standby", d, <<>>)
    /\ value' = 0
    /\ message_len' = 0
    /\ arg' = NoArg
    /\ IF TooLarge(d)
       THEN /\ Fail("MessageTooLarge")
            /\ log' = <<>>
       ELSE /\ log' = <<Write("Fifo", Frame(d), ok)>>
            /\ IF ok
               THEN /\ pc' = "sm_check"
                    /\ ret' = "send_wait"
                    /\ result' = "none"
               ELSE Fail(WriteError)
    /\ fifo' = IF TooLarge(d) THEN fifo ELSE <<>>
    /\ air' = IF TooLarge(d) THEN air ELSE NoAir
    /\ chip' = chip
    /\ UNCHANGED driver

\* mutant: the payload-ready bit is taken for the packet-sent bit
PacketSent_WrongBit(v) == And8(v, 4) # 0

\* the packet-sent bit of IrqFlags2
PacketSent(v) == And8(v, 8) # 0

\* one turn of wait_packet_sent; the last turn calls set_mode(Standby)
SendWait(v, ok) ==
    /\ pc = "send_wait"
    /\ PacketSent(v) \/ ~ok \/ polls < MaxPolls
    /\ log' = Append(log, Read("IrqFlags2", <<v>>, ok))
    /\ IF ~ok
       THEN /\ Fail(ReadRegisterError)
            /\ UNCHANGED <<mode, polls>>
       ELSE IF PacketSent(v)
       THEN /\ pc' = "sm_check"
            /\ ret' = "send_done"
            /\ mode' = "Standby"
            /\ polls' = 0
            /\ result' = result
       ELSE /\ pc' = "send_wait_delay"
            /\ polls' = polls + 1
            /\ UNCHANGED <<mode, ret, result>>
    /\ UNCHANGED <<driver, entry, op, value, local_mode, data, buffer, message_len, arg, fifo, air, chip>>

SendWaitDelay ==
    /\ pc = "send_wait_delay"
    /\ log' = Append(log, Delay("ms", 10))
    /\ pc' = "send_wait"
    /\ UNCHANGED <<driver, ret, entry, op, result, value, mode, local_mode, data, buffer,
                   message_len, arg, polls, fifo, air, chip>>

SendDone ==
    /\ pc = "send_done"
    /\ pc' = "idle"
    /\ result' = "Ok"
    /\ UNCHANGED <<driver, ret, entry, op, value, mode, local_mode, data, buffer,
                   message_len, arg, log, polls, fifo, air, chip>>

-----------------------------------------------------------------------------
(* Rfm69::is_message_available *)

\* mutant: the packet-sent bit counts as payload ready too
PayloadReady_AnyFlag(v) == And8(v, 12) # 0

\* the payload-ready bit of IrqFlags2
PayloadReady(v) == And8(v, 4) = 4

IsMessageAvailable(v, ok) ==
    /\ Begin("is_message_available", "Standby", <<>>, <<>>)
    /\ message_len' = 0
    /\ arg' = NoArg
    /\ pc' = "idle"
    /\ ret' = "idle"
    /\ IF current_mode # "Rx"
       THEN /\ result' = "InvalidMode"
            /\ log' = <<>>
            /\ value' = 0
       ELSE /\ log' = <<Read("IrqFlags2", <<v>>, ok)>>
            /\ IF ok
               THEN /\ result' = "Ok"
                    /\ value' = PayloadReady(v)
               ELSE /\ result' = ReadRegisterError
                    /\ value' = 0
    /\ UNCHANGED <<driver, fifo, air, chip>>

-----------------------------------------------------------------------------
(* Rfm69::receive *)

\* the next n bytes of the FIFO; an empty FIFO reads as zero
Take(f, n) == [i \in 1..n |-> IF i <= Len(f) THEN f[i] ELSE 0]

Drop(f, n) == IF n >= Len(f) THEN <<>> ELSE SubSeq(f, n + 1, Len(f))

\* the caller's buffer: [fill; 65]
BufferLen == 65
NewBuffer(fill) == [i \in 1..BufferLen |-> fill]

\* the frame in the FIFO is the one a peer's send delivered
Delivered == air.on /\ fifo = Frame(air.payload)

\* mutant: the capacity check is off by one
ExceedsBuffer_OffByOne(len) == BufferLen + 1 < len

\* mutant: the header is taken to be 3 bytes long
PayloadCount_Three(len) == len - 3

\* buffer.len() < message_len as usize
ExceedsBuffer(len) == BufferLen < len

\* (message_len - 4) as usize, for message_len >= 4
PayloadCount(len) == len - 4

\* the length-byte read and the capacity check
ReceiveCall(fill, ok) ==
    /\ Begin("receive", "Standby", <<>>, NewBuffer(fill))
    /\ arg' = NoArg
    /\ value' = 0
    /\ log' = <<Read("Fifo", Take(fifo, 1), ok)>>
    /\ air' = IF Delivered THEN air ELSE NoAir
    /\ chip' = chip
    /\ IF ~ok
       THEN /\ Fail(ReadRegisterError)
            /\ fifo' = fifo
            /\ message_len' = 0
       ELSE /\ fifo' = Drop(fifo, 1)
            /\ message_len' = Take(fifo, 1)[1]
            /\ IF ExceedsBuffer(Take(fifo, 1)[1])
               THEN Fail("MessageTooLarge")
               ELSE /\ pc' = "rx_header"
                    /\ ret' = "idle"
                    /\ result' = "none"
    /\ UNCHANGED driver

\* the 4-byte header read; a failure is unwrapped
RxHeader(ok) ==
    /\ pc = "rx_header"
    /\ log' = Append(log, Read("Fifo", Take(fifo, 4), ok))
    /\ IF ok
       THEN /\ pc' = "rx_payload"
            /\ fifo' = Drop(fifo, 4)
            /\ UNCHANGED <<ret, result>>
       ELSE /\ Abort
            /\ fifo' = fifo
    /\ UNCHANGED <<driver, entry, op, value, mode, local_mode, data, buffer, message_len, arg,
                   polls, air, chip>>

\* buffer[0..(message_len - 4) as usize] and the payload read.  With
\* message_len < 4 the u8 subtraction overflows: a panic with overflow
\* checks, and without them a slice end of message_len + 252 > 65, a panic too.
RxPayload(ok) ==
    /\ pc = "rx_payload"
    /\ IF message_len < 4
       THEN /\ Abort
            /\ UNCHANGED <<log, fifo, buffer, value>>
       ELSE LET n == PayloadCount(message_len) IN
            /\ log' = Append(log, Read("Fifo", Take(fifo, n), ok))
            /\ IF ok
               THEN /\ buffer' = [i \in 1..BufferLen |->
                                    IF i <= n THEN Take(fifo, n)[i] ELSE buffer[i]]
                    /\ fifo' = Drop(fifo, n)
                    /\ value' = n
                    /\ pc' = "idle"
                    /\ ret' = "idle"
                    /\ result' = "Ok"
               ELSE /\ Abort
                    /\ UNCHANGED <<fifo, buffer, value>>
    /\ UNCHANGED <<driver, entry, op, mode, local_mode, data, message_len, arg, polls, air, chip>>

-----------------------------------------------------------------------------
(* settings.rs: SyncConfiguration and ModemConfigChoice *)

\* u8 << n: the bits shifted out are lost
Shl8(x, n) == (x * (2 ^ n)) % 256

SyncOff == [kind |-> "SyncOff", sync_tolerance |-> 0]
FifoFillAuto(tol) == [kind |-> "FifoFillAuto", sync_tolerance |-> tol]
FifoFillManual(tol) == [kind |-> "FifoFillManual", sync_tolerance |-> tol]

\* mutant: the tolerance is not clamped
SyncValue_TolUnclamped(config, sync_size) ==
    CASE config.kind = "SyncOff" -> 0
      [] config.kind = "FifoFillAuto" ->
            Or8(Or8(Or8(128, 0), Shl8(Clamp(sync_size, 1, 8) - 1, 3)),
                config.sync_tolerance)
      [] config.kind = "FifoFillManual" ->
            Or8(Or8(Or8(128, 64), Shl8(Clamp(sync_size, 1, 8) - 1, 3)),
                config.sync_tolerance)

\* SyncConfiguration::value(self, sync_size)
SyncValue(config, sync_size) ==
    CASE config.kind = "SyncOff" -> 0
      [] config.kind = "FifoFillAuto" ->
            Or8(Or8(Or8(128, 0), Shl8(Clamp(sync_size, 1, 8) - 1, 3)),
                Clamp(config.sync_tolerance, 0, 7))
      [] config.kind = "FifoFillManual" ->
            Or8(Or8(Or8(128, 64), Shl8(Clamp(sync_size, 1, 8) - 1, 3)),
                Clamp(config.sync_tolerance, 0, 7))

CONFIG_FSK == Or8(Or8(0, 0), 0)
CONFIG_GFSK == Or8(Or8(0, 0), 1)
CONFIG_OOK == Or8(Or8(0, 8), 0)
CONFIG_WHITE == Or8(Or8(Or8(128, 64), 16), 0)

\* ModemConfigChoice::values: the presets' eight register bytes
ModemValues ==
    [FskRb2Fd5          |-> <<CONFIG_FSK, 62, 128, 0, 82, 244, 244, CONFIG_WHITE>>,
     FskRb2_4Fd4_8      |-> <<CONFIG_FSK, 52, 21, 0, 79, 244, 244, CONFIG_WHITE>>,
     FskRb4_8Fd9_6      |-> <<CONFIG_FSK, 26, 11, 0, 157, 244, 244, CONFIG_WHITE>>,
     FskRb9_6Fd19_2     |-> <<CONFIG_FSK, 13, 5, 1, 59, 244, 244, CONFIG_WHITE>>,
     FskRb19_2Fd38_4    |-> <<CONFIG_FSK, 6, 131, 2, 117, 243, 243, CONFIG_WHITE>>,
     FskRb38_4Fd76_8    |-> <<CONFIG_FSK, 3, 65, 4, 234, 242, 242, CONFIG_WHITE>>,
     FskRb57_6Fd120     |-> <<CONFIG_FSK, 2, 44, 7, 174, 226, 226, CONFIG_WHITE>>,
     FskRb125Fd125      |-> <<CONFIG_FSK, 1, 0, 8, 0, 225, 225, CONFIG_WHITE>>,
     FskRb250Fd250      |-> <<CONFIG_FSK, 0, 128, 16, 0, 224, 224, CONFIG_WHITE>>,
     FskRb55555Fd50     |-> <<CONFIG_FSK, 2, 64, 3, 51, 66, 66, CONFIG_WHITE>>,
     GfskRb2Fd5         |-> <<CONFIG_GFSK, 62, 128, 0, 82, 244, 245, CONFIG_WHITE>>,
     GfskRb2_4Fd4_8     |-> <<CONFIG_GFSK, 52, 21, 0, 79, 244, 244, CONFIG_WHITE>>,
     GfskRb4_8Fd9_6     |-> <<CONFIG_GFSK, 26, 11, 0, 157, 244, 244, CONFIG_WHITE>>,
     GfskRb9_6Fd19_2    |-> <<CONFIG_GFSK, 13, 5, 1, 59, 244, 244, CONFIG_WHITE>>,
     GfskRb19_2Fd38_4   |-> <<CONFIG_GFSK, 6, 131, 2, 117, 243, 243, CONFIG_WHITE>>,
     GfskRb38_4Fd76_8   |-> <<CONFIG_GFSK, 3, 65, 4, 234, 242, 242, CONFIG_WHITE>>,
     GfskRb57_6Fd120    |-> <<CONFIG_GFSK, 2, 44, 7, 174, 226, 226, CONFIG_WHITE>>,
     GfskRb125Fd125     |-> <<CONFIG_GFSK, 1, 0, 8, 0, 225, 225, CONFIG_WHITE>>,
     GfskRb250Fd250     |-> <<CONFIG_GFSK, 0, 128, 16, 0, 224, 224, CONFIG_WHITE>>,
     GfskRb55555Fd50    |-> <<CONFIG_GFSK, 2, 64, 3, 51, 66, 66, CONFIG_WHITE>>,
     OokRb1Bw1          |-> <<CONFIG_OOK, 125, 0, 0, 16, 136, 136, CONFIG_WHITE>>,
     OokRb1_2Bw75       |-> <<CONFIG_OOK, 104, 43, 0, 16, 241, 241, CONFIG_WHITE>>,
     OokRb2_4Bw4_8      |-> <<CONFIG_OOK, 52, 21, 0, 16, 245, 245, CONFIG_WHITE>>,
     OokRb4_8Bw9_6      |-> <<CONFIG_OOK, 26, 11, 0, 16, 244, 244, CONFIG_WHITE>>,
     OokRb9_6Bw19_2     |-> <<CONFIG_OOK, 13, 5, 0, 16, 243, 243, CONFIG_WHITE>>,
     OokRb19_2Bw38_4    |-> <<CONFIG_OOK, 6, 131, 0, 16, 242, 242, CONFIG_WHITE>>,
     OokRb32Bw64        |-> <<CONFIG_OOK, 3, 232, 0, 16, 226, 226, CONFIG_WHITE>>]

\* ContinuousDagc as u8
ContinuousDagc == [NormalMode |-> 0, ImprovedLowBeta0 |-> 32, ImprovedLowBeta1 |-> 48]

-----------------------------------------------------------------------------
(* The configuration helpers of the driver *)

\* mutant: the empty word list is accepted
SyncWordsRefused_OnlyLong(words) == Len(words) > 8

\* sync_words.len() > 8 || sync_words.len() == 0
SyncWordsRefused(words) == Len(words) > 8 \/ Len(words) = 0

\* the 9-byte buffer of set_sync_words: the config value, the words, zeros
SyncBuffer(config, words) ==
    [i \in 1..9 |-> IF i = 1 THEN SyncValue(config, Len(words) % 256)
                    ELSE IF i - 1 <= Len(words) THEN words[i - 1] ELSE 0]

\* the bytes set_sync_words hands to write_many: &buffer
SyncBurst(config, words) == SyncBuffer(config, words)

\* the encoder is applied to the configuration and word count drawn by InitSync
SyncEncode ==
    /\ op = "sync_config"
    /\ op' = "sync_value"
    /\ value' = SyncValue(arg.config, arg.sync_size)
    /\ UNCHANGED <<driver, pc, ret, result, mode, local_mode, data, buffer, message_len,
                   log, polls, fifo, air, chip, arg, entry>>

SetSyncWords(config, sync_words, ok) ==
    /\ Begin("set_sync_words", "Standby", <<>>, <<>>)
    /\ message_len' = 0
    /\ arg' = [config |-> config, sync_words |-> sync_words]
    /\ value' = 0
    /\ pc' = "idle"
    /\ ret' = "idle"
    /\ IF SyncWordsRefused(sync_words)
       THEN /\ result' = "ConfigurationError"
            /\ log' = <<>>
       ELSE /\ log' = <<Write("SyncConfig", SyncBurst(config, sync_words), ok)>>
            /\ result' = IF ok THEN "Ok" ELSE WriteError
    /\ UNCHANGED <<driver, fifo, air, chip>>

\* mutant: the second burst starts one byte early
ModemWrites_Overlap(choice) ==
    LET values == ModemValues[choice] IN
    << <<"DataModul", SubSeq(values, 1, 5)>>,
       <<"RxBw", SubSeq(values, 5, 6)>>,
       <<"PacketConfig1", <<values[8]>> >> >>

\* the three writes of set_modem_config
ModemWrites(choice) ==
    LET values == ModemValues[choice] IN
    << <<"DataModul", SubSeq(values, 1, 5)>>,
       <<"RxBw", SubSeq(values, 6, 7)>>,
       <<"PacketConfig1", <<values[8]>> >> >>

\* set_modem_config: the writes in order, up to the first that fails
\* (fail_at = 0: none fails)
SetModemConfig(choice, fail_at) ==
    /\ Begin("set_modem_config", "Standby", <<>>, <<>>)
    /\ message_len' = 0
    /\ arg' = [config |-> choice]
    /\ value' = 0
    /\ pc' = "idle"
    /\ ret' = "idle"
    /\ log' = [i \in 1..(IF fail_at = 0 THEN 3 ELSE fail_at) |->
                 Write(ModemWrites(choice)[i][1], ModemWrites(choice)[i][2], i # fail_at)]
    /\ result' = IF fail_at = 0 THEN "Ok" ELSE WriteError
    /\ UNCHANGED <<driver, fifo, air, chip>>

\* [msb, lsb] of set_preamble_length
PreambleBytes(preamble_length) ==
    <<(preamble_length \div 256) % 256, preamble_length % 256>>

\* settings::RF69_FSTEP and settings::RF69_FXOSC
RF69_FSTEP == 524288
RF69_FXOSC == 32

\* mutant: the three bytes are written least significant first
FrfBytes_LittleEndian(freq_mhz) ==
    LET frf == (freq_mhz * RF69_FSTEP) \div RF69_FXOSC IN
    <<frf % 256, (frf \div 256) % 256, (frf \div 65536) % 256>>

\* [msb, mid, lsb] of set_frequency, for freq_mhz < 4096 (the u32 product
\* does not overflow)
FrfBytes(freq_mhz) ==
    LET frf == (freq_mhz * RF69_FSTEP) \div RF69_FXOSC IN
    <<(frf \div 65536) % 256, (frf \div 256) % 256, frf % 256>>

SetFrequency(freq_mhz, ok) ==
    /\ Begin("set_frequency", "Standby", <<>>, <<>>)
    /\ message_len' = 0
    /\ arg' = [freq_mhz |-> freq_mhz]
    /\ value' = 0
    /\ pc' = "idle"
    /\ ret' = "idle"
    /\ log' = <<Write("FrfMsb", FrfBytes(freq_mhz), ok)>>
    /\ result' = IF ok THEN "Ok" ELSE WriteError
    /\ UNCHANGED <<driver, fifo, air, chip>>

-----------------------------------------------------------------------------
(* Rfm69::reset *)

\* one access to the reset line as the log records it
Pin(level, ok) == [kind |-> "pin", reg |-> level, bytes |-> <<>>, ok |-> ok]

\* reset returns Ok into the operation that called it
ResetReturn ==
    /\ pc' = ret
    /\ ret' = "idle"
    /\ result' = result

\* the line goes high: the chip is reset
ResetHigh(ok) ==
    /\ pc = "reset_high"
    /\ log' = Append(log, Pin("set_high", ok))
    /\ IF ok THEN pc' = "reset_hold" /\ UNCHANGED <<ret, result>> ELSE Fail("ResetError")
    /\ UNCHANGED <<driver, entry, op, value, mode, local_mode, data, buffer, message_len, arg,
                   polls, fifo, air>>
    /\ chip' = IF ok THEN ChipPowerUp ELSE chip

\* mutant: the line is held high for 100 ms
ResetHold_Millis ==
    /\ pc = "reset_hold"
    /\ log' = Append(log, Delay("ms", 100))
    /\ pc' = "reset_low"
    /\ UNCHANGED <<driver, ret, entry, op, result, value, mode, local_mode, data, buffer,
                   message_len, arg, polls, fifo, air, chip>>

ResetHold ==
    /\ pc = "reset_hold"
    /\ log' = Append(log, Delay("us", 100))
    /\ pc' = "reset_low"
    /\ UNCHANGED <<driver, ret, entry, op, result, value, mode, local_mode, data, buffer,
                   message_len, arg, polls, fifo, air, chip>>

ResetLow(ok) ==
    /\ pc = "reset_low"
    /\ log' = Append(log, Pin("set_low", ok))
    /\ IF ok THEN pc' = "reset_settle" /\ UNCHANGED <<ret, result>> ELSE Fail("ResetError")
    /\ UNCHANGED <<driver, entry, op, value, mode, local_mode, data, buffer, message_len, arg,
                   polls, fifo, air, chip>>

ResetSettle ==
    /\ pc = "reset_settle"
    /\ log' = Append(log, Delay("ms", 5))
    /\ ResetReturn
    /\ UNCHANGED <<driver, entry, op, value, mode, local_mode, data, buffer, message_len, arg,
                   polls, fifo, air, chip>>

-----------------------------------------------------------------------------
(* Rfm69::init *)

\* the silicon revision init insists on
ChipVersion == 36

\* mutant: only a version above 0x24 is refused
WrongVersion_Above(version) == version > ChipVersion

\* version != 0x24
WrongVersion(version) == version # ChipVersion

\* mutant: the boost registers are reset before the sync words are set
InitWrites_PaBeforeSync ==
    << [reg |-> "FifoThresh", bytes |-> <<143>>],
       [reg |-> "TestDagc", bytes |-> <<48>>],
       [reg |-> "Lna", bytes |-> <<136>>],
       [reg |-> "TestPa1", bytes |-> <<85>>],
       [reg |-> "TestPa2", bytes |-> <<112>>],
       [reg |-> "SyncConfig", bytes |-> <<136, 45, 212, 0, 0, 0, 0, 0, 0>>],
       [reg |-> "DataModul", bytes |-> <<1, 0, 128, 16, 0>>],
       [reg |-> "RxBw", bytes |-> <<224, 224>>],
       [reg |-> "PacketConfig1", bytes |-> <<208>>],
       [reg |-> "PreambleMsb", bytes |-> <<0, 4>>],
       [reg |-> "PaLevel", bytes |-> <<95>>],
       [reg |-> "FrfMsb", bytes |-> <<228, 192, 0>>] >>

\* the configuration writes of init after the version check, in program
\* order: the register, the bytes, and the power cached once the write is done
InitWrites ==
    << [reg |-> "FifoThresh", bytes |-> <<143>>],
       [reg |-> "TestDagc", bytes |-> <<ContinuousDagc.ImprovedLowBeta1>>],
       [reg |-> "Lna", bytes |-> <<136>>],
       [reg |-> "SyncConfig", bytes |-> SyncBurst(FifoFillAuto(0), <<45, 212>>)],
       [reg |-> "TestPa1", bytes |-> <<85>>],
       [reg |-> "TestPa2", bytes |-> <<112>>] >>
    \o [i \in 1..3 |-> [reg |-> ModemWrites("GfskRb250Fd250")[i][1],
                        bytes |-> ModemWrites("GfskRb250Fd250")[i][2]]]
    \o << [reg |-> "PreambleMsb", bytes |-> PreambleBytes(4)],
          [reg |-> "PaLevel", bytes |-> <<PaLevel(TRUE, 13)>>],
          [reg |-> "FrfMsb", bytes |-> FrfBytes(915)] >>

\* the first delay of init, then the reset pulse
InitCall ==
    /\ Begin("init", "Standby", <<>>, <<>>)
    /\ message_len' = 0
    /\ arg' = NoArg
    /\ value' = 0
    /\ log' = <<Delay("ms", 10)>>
    /\ pc' = "reset_high"
    /\ ret' = "init_version"
    /\ result' = "none"
    /\ UNCHANGED <<driver, fifo, air, chip>>

\* the version read and its check
InitVersion(version, ok) ==
    /\ pc = "init_version"
    /\ log' = Append(log, Read("Version", <<version>>, ok))
    /\ IF ~ok THEN Fail(ReadRegisterError)
       ELSE IF WrongVersion(version) THEN Fail("SpiReadError")
       ELSE /\ pc' = "init_write"
            /\ UNCHANGED <<ret, result>>
    /\ polls' = 0
    /\ UNCHANGED <<driver, entry, op, value, mode, local_mode, data, buffer, message_len, arg,
                   fifo, air, chip>>

\* the next configuration write of init; `polls` counts the writes done.
\* set_tx_power(13) caches the power as soon as its write is done; the last
\* write is followed by set_mode(Standby).
InitWrite(ok) ==
    /\ pc = "init_write"
    /\ LET w == InitWrites[polls + 1] IN
       /\ log' = Append(log, Write(w.reg, w.bytes, ok))
       /\ tx_power' = IF ok /\ w.reg = "PaLevel" THEN 13 ELSE tx_power
    /\ IF ~ok
       THEN /\ Fail(WriteError)
            /\ UNCHANGED polls
       ELSE IF polls + 1 < Len(InitWrites)
       THEN /\ polls' = polls + 1
            /\ UNCHANGED <<pc, ret, result>>
       ELSE /\ polls' = 0
            /\ pc' = "sm_check"
            /\ ret' = "init_done"
            /\ result' = result
    /\ UNCHANGED <<current_mode, is_high_power, entry, op, value, mode, local_mode, data,
                   buffer, message_len, arg, fifo, air>>
    /\ chip' = ChipWrite(chip, InitWrites[polls + 1].reg, InitWrites[polls + 1].bytes, ok)

InitDone ==
    /\ pc = "init_done"
    /\ pc' = "idle"
    /\ result' = "Ok"
    /\ UNCHANGED <<driver, ret, entry, op, value, mode, local_mode, data, buffer,
                   message_len, arg, log, polls, fifo, air, chip>>

-----------------------------------------------------------------------------
(* registers.rs: the register map and the two opcodes of a register *)

\* enum Register: the address of every register
Register ==
    [Fifo |-> 0, RegOpMode |-> 1, DataModul |-> 2, BitrateMsb |-> 3,
     BitrateLsb |-> 4, FdevMsb |-> 5, FdevLsb |-> 6, FrfMsb |-> 7,
     FrfMid |-> 8, FrfLsb |-> 9, Osc1 |-> 10, AfcCtrl |-> 11,
     LowBat |-> 12, Listen1 |-> 13, Listen2 |-> 14, Listen3 |-> 15,
     Version |-> 16, PaLevel |-> 17, PaRamp |-> 18, Ocp |-> 19,
     AgcRef |-> 20, AgcThresh1 |-> 21, AgcThresh2 |-> 22, AgcThresh3 |-> 23,
     Lna |-> 24, RxBw |-> 25, AfcBw |-> 26, OokPeak |-> 27,
     OokAvg |-> 28, OokFix |-> 29, AfcFei |-> 30, AfcMsb |-> 31,
     AfcLsb |-> 32, FeiMsb |-> 33, FeiLsb |-> 34, RssiConfig |-> 35,
     RssiValue |-> 36, DioMapping1 |-> 37, DioMapping2 |-> 38, IrqFlags1 |-> 39,
     IrqFlags2 |-> 40, RssiThresh |-> 41, RxTimeout1 |-> 42, RxTimeout2 |-> 43,
     PreambleMsb |-> 44, PreambleLsb |-> 45, SyncConfig |-> 46, SyncValue1 |-> 47,
     SyncValue2 |-> 48, SyncValue3 |-> 49, SyncValue4 |-> 50, SyncValue5 |-> 51,
     SyncValue6 |-> 52, SyncValue7 |-> 53, SyncValue8 |-> 54, PacketConfig1 |-> 55,
     PayloadLength |-> 56, NodeAddrs |-> 57, BroadcastAddrs |-> 58, AutoModes |-> 59,
     FifoThresh |-> 60, PacketConfig2 |-> 61, AesKey1 |-> 62, AesKey2 |-> 63,
     AesKey3 |-> 64, AesKey4 |-> 65, AesKey5 |-> 66, AesKey6 |-> 67,
     AesKey7 |-> 68, AesKey8 |-> 69, AesKey9 |-> 70, AesKey10 |-> 71,
     AesKey11 |-> 72, AesKey12 |-> 73, AesKey13 |-> 74, AesKey14 |-> 75,
     AesKey15 |-> 76, AesKey16 |-> 77, Temp1 |-> 78, Temp2 |-> 79,
     TestLna |-> 88, TestPa1 |-> 90, TestPa2 |-> 92, TestDagc |-> 111]

READ_MASK == 127
WRITE_MASK == 128

\* Register::read
RegRead(r) == And8(Register[r], READ_MASK)

\* mutant: the write flag is bit 6
RegWrite_Bit6(r) == Or8(Register[r], 64)

\* Register::write
RegWrite(r) == Or8(Register[r], WRITE_MASK)

\* the opcodes of the register drawn by InitReg are computed
Opcodes ==
    /\ op = "register"
    /\ op' = "opcodes"
    /\ value' = [read |-> RegRead(arg.register), write |-> RegWrite(arg.register)]
    /\ UNCHANGED <<driver, pc, ret, result, mode, local_mode, data, buffer, message_len,
                   log, polls, fifo, air, chip, arg, entry>>

-----------------------------------------------------------------------------
(* Rfm69::read_temperature *)

\* the start-measurement value written to Temp1
TempStart == 8

\* mutant: the running bit is taken to be bit 3
TempRunning_Bit3(v) == And8(v, 8) # 0

\* the running bit of Temp1: `& 0x04 != 0x00`
TempRunning(v) == And8(v, 4) # 0

\* (166 as f32) - temp as f32: both operands are whole numbers
Temperature(raw) == 166 - raw

\* the start-measurement write
ReadTemperature(ok) ==
    /\ Begin("read_temperature", "Standby", <<>>, <<>>)
    /\ value' = 0
    /\ message_len' = 0
    /\ arg' = NoArg
    /\ log' = <<Write("Temp1", <<TempStart>>, ok)>>
    /\ IF ok
       THEN /\ pc' = "temp_poll"
            /\ ret' = "idle"
            /\ result' = "none"
       ELSE Fail(WriteError)
    /\ UNCHANGED <<driver, fifo, air, chip>>

\* one turn of the while loop: the condition reads Temp1
TempPoll(v, ok) ==
    /\ pc = "temp_poll"
    /\ ~TempRunning(v) \/ ~ok \/ polls < MaxPolls
    /\ log' = Append(log, Read("Temp1", <<v>>, ok))
    /\ IF ~ok
       THEN /\ Fail(ReadRegisterError)
            /\ polls' = polls
       ELSE IF TempRunning(v)
       THEN /\ pc' = "temp_delay"
            /\ polls' = polls + 1
            /\ UNCHANGED <<ret, result>>
       ELSE /\ pc' = "temp_value"
            /\ polls' = polls
            /\ UNCHANGED <<ret, result>>
    /\ UNCHANGED <<driver, entry, op, value, mode, local_mode, data, buffer, message_len,
                   arg, fifo, air, chip>>

\* the body of the while loop
TempDelay ==
    /\ pc = "temp_delay"
    /\ log' = Append(log, Delay("ms", 10))
    /\ pc' = "temp_poll"
    /\ UNCHANGED <<driver, ret, entry, op, result, value, mode, local_mode, data, buffer,
                   message_len, arg, polls, fifo, air, chip>>

\* the read of Temp2 and the conversion
TempValue(raw, ok) ==
    /\ pc = "temp_value"
    /\ log' = Append(log, Read("Temp2", <<raw>>, ok))
    /\ pc' = "idle"
    /\ ret' = "idle"
    /\ IF ok
       THEN /\ result' = "Ok"
            /\ value' = Temperature(raw)
       ELSE /\ result' = ReadRegisterError
            /\ value' = value
    /\ UNCHANGED <<driver, entry, op, mode, local_mode, data, buffer, message_len, arg,
                   polls, fifo, air, chip>>

-----------------------------------------------------------------------------
(* Rfm69::rssi and Rfm69::read_revision *)

\* mutant: a single-register read resynchronises the cached mode to Standby
ReadOne_CachesStandby(name, reg, v, ok, f) ==
    /\ Begin(name, "Standby", <<>>, <<>>)
    /\ message_len' = 0
    /\ arg' = NoArg
    /\ pc' = "idle"
    /\ ret' = "idle"
    /\ log' = <<Read(reg, <<v>>, ok)>>
    /\ result' = IF ok THEN "Ok" ELSE ReadRegisterError
    /\ value' = IF ok THEN f ELSE 0
    /\ current_mode' = "Standby"
    /\ UNCHANGED <<tx_power, is_high_power, fifo, air, chip>>

\* a call that is one single-register read: Ok(f(byte)) or the read's error
ReadOne(name, reg, v, ok, f) ==
    /\ Begin(name, "Standby", <<>>, <<>>)
    /\ message_len' = 0
    /\ arg' = NoArg
    /\ pc' = "idle"
    /\ ret' = "idle"
    /\ log' = <<Read(reg, <<v>>, ok)>>
    /\ result' = IF ok THEN "Ok" ELSE ReadRegisterError
    /\ value' = IF ok THEN f ELSE 0
    /\ UNCHANGED <<driver, fifo, air, chip>>

\* rssi / 2
Rssi(v, ok) == ReadOne("rssi", "RssiValue", v, ok, v \div 2)

ReadRevision(v, ok) == ReadOne("read_revision", "Version", v, ok, v)

-----------------------------------------------------------------------------
(* Rfm69::read_all_registers *)

\* [0u8; 79]: the length of the burst read
BankLen == 79

\* [(u8, u8); 84]
MappedLen == 84

\* Register::TestAfc: rfm69.rs names it, the register map under registers.rs
\* has no such variant; 0x71 is its address in the RFM69 register map
TestAfc == 113

\* the registers read one by one, in order: mapped[79] .. mapped[83]
AuxRegisters == <<"TestLna", "TestPa1", "TestPa2", "TestDagc", "TestAfc">>

\* Register::addr
Addr(r) == IF r = "TestAfc" THEN TestAfc ELSE Register[r]

Pair(a, v) == [addr |-> a, value |-> v]

\* (index + 1) of the enumerate loop, for index from 0
BankAddr(index) == index + 1

\* what the chip's registers 1..79 hold
Bank(seed) == [i \in 1..BankLen |-> (seed + 37 * i) % 256]

\* the burst read and the loop that pairs the bytes with their addresses
ReadAllRegisters(seed, ok) ==
    /\ Begin("read_all_registers", "Standby", <<>>, <<>>)
    /\ message_len' = 0
    /\ value' = 0
    /\ log' = <<Read("OpMode", Bank(seed), ok)>>
    /\ IF ok
       THEN /\ arg' = [mapped |-> [i \in 1..MappedLen |->
                          IF i <= BankLen THEN Pair(BankAddr(i - 1), Bank(seed)[i])
                                          ELSE Pair(0, 0)]]
            /\ pc' = "regs_aux"
            /\ ret' = "idle"
            /\ result' = "none"
       ELSE /\ arg' = NoArg
            /\ Fail(ReadManyError)
    /\ UNCHANGED <<driver, fifo, air, chip>>

\* mapped[79 + polls] = (register.addr(), read_register(register)?)
ReadAux(v, ok) ==
    /\ pc = "regs_aux"
    /\ LET r == AuxRegisters[polls + 1]
           m == [arg.mapped EXCEPT ![BankLen + polls + 1] = Pair(Addr(r), v)]
           last == polls + 1 = Len(AuxRegisters)
       IN /\ log' = Append(log, Read(r, <<v>>, ok))
          /\ IF ~ok
             THEN /\ Fail(ReadRegisterError)
                  /\ UNCHANGED <<arg, polls, value>>
             ELSE /\ arg' = [mapped |-> m]
                  /\ polls' = polls + 1
                  /\ pc' = IF last THEN "idle" ELSE "regs_aux"
                  /\ ret' = "idle"
                  /\ result' = IF last THEN "Ok" ELSE "none"
                  /\ value' = IF last THEN m ELSE value
    /\ UNCHANGED <<driver, entry, op, mode, local_mode, data, buffer, message_len, fifo, air, chip>>

-----------------------------------------------------------------------------
(* The environment: what the radio puts into the FIFO *)

\* The radio is an event of its own: it is not part of the last operation.
Event(name) ==
    /\ Begin(name, "Standby", <<>>, <<>>)
    /\ pc' = "idle"
    /\ ret' = "idle"
    /\ result' = "Ok"
    /\ value' = 0
    /\ message_len' = 0
    /\ arg' = NoArg
    /\ log' = <<>>

\* the bytes that follow the length byte l in a received frame: the header
\* and the payload, or less when the sender announced more than it sent
FrameTail(l) == [i \in 1..(IF l > BufferLen THEN 5 ELSE IF l > 4 THEN l ELSE 4) |->
              (l + 37 * i) % 256]

\* a frame with length byte l arrives from an unknown sender
FifoArrive(l) ==
    /\ Event("fifo_arrive")
    /\ fifo' = <<l>> \o FrameTail(l)
    /\ air' = NoAir
    /\ chip' = chip
    /\ UNCHANGED driver

\* the frame the last send wrote to its FIFO is received by the peer
Loopback ==
    /\ op = "send"
    /\ result = "Ok"
    /\ Event("loopback")
    /\ fifo' = log[1].bytes
    /\ air' = [on |-> TRUE, payload |-> data]
    /\ chip' = chip
    /\ UNCHANGED driver

-----------------------------------------------------------------------------
(* Inputs *)

\* payload of n bytes, different for every seed
Payload(n, seed) == [i \in 1..n |-> (seed + 37 * i) % 256]

Powers == {17, 18}
OpModeReads == {196, 59}
IrqFlags1Reads == {127, 128}
IrqFlags2Reads == {0, 4, 8}
PacketSentReads == {4, 8}
Payloads == {Payload(0, 1), Payload(60, 1), Payload(61, 1), Payload(70, 1)}
Fills == {0, 170}
Temp1Reads == {0, 4, 8}
Temp2Reads == {141, 0, 255}
RssiReads == {0, 91, 255}
BankSeeds == {1, 2}
AuxReads == {0, 85}

\* the transport accesses of set_mode: the mode-control register reads as
\* one of vs, the first status register as one of rs, an access succeeds as
\* one of oks
SetModeSteps(vs, rs, oks) ==
    \/ SmCheck
    \/ \E v \in vs, ok \in oks : SmReadOpMode(v, ok)
    \/ \E ok \in oks : SmWriteOpMode(ok)
    \/ \E v \in rs, ok \in oks : SmPoll(v, ok)

TestPaSteps(oks) ==
    \/ \E ok \in oks : SmTestPa1(ok)
    \/ \E ok \in oks : SmTestPa2(ok)

\* the steps of read_temperature after its start-measurement write
TemperatureSteps(vs, raws, oks) ==
    \/ \E v \in vs, ok \in oks : TempPoll(v, ok)
    \/ TempDelay
    \/ \E raw \in raws, ok \in oks : TempValue(raw, ok)

\* the steps of send after its FIFO burst
SendSteps(rs, oks) ==
    \/ \E v \in rs, ok \in oks : SendWait(v, ok)
    \/ SendDone

(* The driver under any sequence of calls *)
Next ==
    \/ \E p \in Powers, ok \in BOOLEAN, oc \in BOOLEAN : SetTxPower(p, ok, oc)
    \/ \E m \in Modes : SetModeCall(m)
    \/ SetModeSteps(OpModeReads, IrqFlags1Reads, BOOLEAN)
    \/ TestPaSteps(BOOLEAN)
    \/ SmDelay
    \/ \E d \in Payloads, ok \in BOOLEAN : SendCall(d, ok)
    \/ SendSteps(PacketSentReads, BOOLEAN)
    \/ SendWaitDelay
    \/ \E v \in IrqFlags2Reads, ok \in BOOLEAN : IsMessageAvailable(v, ok)
    \/ \E ok \in BOOLEAN : ReadTemperature(ok)
    \/ TemperatureSteps(Temp1Reads, Temp2Reads, BOOLEAN)

Spec == Init /\ [][Next]_vars

(* set_mode with every byte the mode-control register can read as *)
NextMode ==
    \/ \E p \in Powers : SetTxPower(p, TRUE, TRUE)
    \/ \E m \in Modes : SetModeCall(m)
    \/ SetModeSteps(Bytes, {128}, {TRUE})
    \/ TestPaSteps({TRUE})

SpecMode == Init /\ [][NextMode]_vars

(* Framing: send and receive with every payload length and every length byte *)
Lengths == 0..(BufferLen + 2) \cup {128, 255}
FramePayloads == {Payload(n, 1) : n \in 0..MaxPayload}

NextFrame ==
    \/ \E d \in FramePayloads, ok \in BOOLEAN : SendCall(d, ok)
    \/ SetModeSteps({196}, {128}, BOOLEAN)
    \/ SendSteps({8}, BOOLEAN)
    \/ Loopback
    \/ \E l \in Lengths : FifoArrive(l)
    \/ \E fill \in Fills, ok \in BOOLEAN : ReceiveCall(fill, ok)
    \/ \E ok \in BOOLEAN : RxHeader(ok)
    \/ \E ok \in BOOLEAN : RxPayload(ok)

SpecFrame == Init /\ [][NextFrame]_vars

(* set_tx_power on the fresh driver with every i8, then set_mode *)
I8 == -128..127

NextPower ==
    \/ /\ op = "new"
       /\ \E p \in I8, ok \in BOOLEAN, oc \in BOOLEAN : SetTxPower(p, ok, oc)
    \/ \E m \in {"Tx", "Rx"} : SetModeCall(m)
    \/ SetModeSteps({196}, {128}, {TRUE})
    \/ TestPaSteps({TRUE})

SpecPower == Init /\ [][NextPower]_vars

(* init, from every cached mode and power *)
VersionReads == {36, 35, 0, 255}

ResetSteps(oks) ==
    \/ \E ok \in oks : ResetHigh(ok)
    \/ ResetHold
    \/ \E ok \in oks : ResetLow(ok)
    \/ ResetSettle

InitSteps(vs, oks) ==
    \/ \E v \in vs, ok \in oks : InitVersion(v, ok)
    \/ \E ok \in oks : InitWrite(ok)
    \/ InitDone

NextInit ==
    \/ InitCall
    \/ ResetSteps(BOOLEAN)
    \/ InitSteps(VersionReads, BOOLEAN)
    \/ \E p \in Powers : SetTxPower(p, TRUE, TRUE)
    \/ \E m \in Modes : SetModeCall(m)
    \/ SetModeSteps({196}, IrqFlags1Reads, BOOLEAN)
    \/ TestPaSteps(BOOLEAN)
    \/ SmDelay

SpecInit == Init /\ [][NextInit]_vars

(* The driver and the chip: init, set_tx_power, set_mode, send and the
   status read, with any access failing *)
ChipPayloads == {Payload(1, 1)}

ChipSteps(versions, oks) ==
    \/ InitCall
    \/ ResetSteps(oks)
    \/ InitSteps(versions, oks)
    \/ \E p \in Powers, ok \in oks : SetTxPower(p, ok, TRUE)
    \/ \E m \in Modes : SetModeCall(m)
    \/ SetModeSteps(OpModeReads, IrqFlags1Reads, oks)
    \/ TestPaSteps(oks)
    \/ SmDelay
    \/ \E d \in ChipPayloads, ok \in oks : SendCall(d, ok)
    \/ SendSteps(PacketSentReads, oks)
    \/ SendWaitDelay

NextChip ==
    \/ ChipSteps(VersionReads, BOOLEAN)
    \/ \E v \in IrqFlags2Reads, ok \in BOOLEAN : IsMessageAvailable(v, ok)

SpecChip == Init /\ [][NextChip]_vars

(* The same operations when every access succeeds and the chip is an RFM69 *)
NextChipOk == ChipSteps({ChipVersion}, {TRUE})

SpecChipOk == Init /\ [][NextChipOk]_vars

(* set_mode and send on a transport that never fails, with a chip that
   answers its polls in the end *)
LivePayloads == {Payload(0, 1), Payload(60, 1)}

\* the steps of an operation that is running
LiveSteps ==
    \/ SetModeSteps({196}, IrqFlags1Reads, {TRUE})
    \/ TestPaSteps({TRUE})
    \/ SmDelay
    \/ SendSteps(PacketSentReads, {TRUE})
    \/ SendWaitDelay

NextLive ==
    \/ \E p \in Powers : SetTxPower(p, TRUE, TRUE)
    \/ \E m \in Modes : SetModeCall(m)
    \/ \E d \in LivePayloads : SendCall(d, TRUE)
    \/ LiveSteps

\* the chip reports mode-ready, the chip reports packet-sent
ReadyAnswer == \E v \in IrqFlags1Reads : ModeReady(v) /\ SmPoll(v, TRUE)
SentAnswer == \E v \in PacketSentReads : PacketSent(v) /\ SendWait(v, TRUE)

\* The operation that was called runs on; a poll that is made again and
\* again is answered ready at some time.
SpecLive ==
    /\ Init
    /\ [][NextLive]_vars
    /\ WF_vars(LiveSteps)
    /\ SF_vars(ReadyAnswer)
    /\ SF_vars(SentAnswer)

(* The sync encoder with every configuration and every word count *)
SyncConfigurations ==
    {SyncOff} \cup {FifoFillAuto(tol) : tol \in Bytes} \cup {FifoFillManual(tol) : tol \in Bytes}

InitSync ==
    Input("sync_config", [config : SyncConfigurations, sync_size : Bytes])

NextSync == SyncEncode

SpecSync == InitSync /\ [][NextSync]_vars

(* The configuration helpers, called on their own *)
SyncWordLists == {Payload(n, 1) : n \in 0..10}
SyncChoices == {SyncOff, FifoFillAuto(0), FifoFillAuto(7), FifoFillAuto(14),
                FifoFillManual(0), FifoFillManual(7)}

Frequencies == 0..MaxFreq

NextConfig ==
    \/ \E c \in SyncChoices, w \in SyncWordLists, ok \in BOOLEAN : SetSyncWords(c, w, ok)
    \/ \E f \in Frequencies, ok \in BOOLEAN : SetFrequency(f, ok)
    \/ \E c \in DOMAIN ModemValues, fail_at \in 0..3 : SetModemConfig(c, fail_at)

SpecConfig == Init /\ [][NextConfig]_vars

(* The status and diagnostic operations, in every cached mode and power *)
ReadLengths == {0, 4, 6, 70}

NextRead ==
    \/ \E p \in Powers : SetTxPower(p, TRUE, TRUE)
    \/ \E m \in Modes : SetModeCall(m)
    \/ SetModeSteps({196}, {128}, {TRUE})
    \/ TestPaSteps({TRUE})
    \/ \E ok \in BOOLEAN : ReadTemperature(ok)
    \/ TemperatureSteps(Temp1Reads, Temp2Reads, BOOLEAN)
    \/ \E v \in RssiReads, ok \in BOOLEAN : Rssi(v, ok)
    \/ \E v \in VersionReads, ok \in BOOLEAN : ReadRevision(v, ok)
    \/ \E seed \in BankSeeds, ok \in BOOLEAN : ReadAllRegisters(seed, ok)
    \/ \E v \in AuxReads, ok \in BOOLEAN : ReadAux(v, ok)
    \/ \E v \in IrqFlags2Reads, ok \in BOOLEAN : IsMessageAvailable(v, ok)
    \/ \E l \in ReadLengths : FifoArrive(l)
    \/ \E ok \in BOOLEAN : ReceiveCall(0, ok)
    \/ \E ok \in BOOLEAN : RxHeader(ok)
    \/ \E ok \in BOOLEAN : RxPayload(ok)

SpecRead == Init /\ [][NextRead]_vars

(* The opcodes of every register of the map *)
InitReg == Input("register", {[register |-> r] : r \in DOMAIN Register})

NextReg == Opcodes

SpecReg == InitReg /\ [][NextReg]_vars

-----------------------------------------------------------------------------
(* Vocabulary of the properties *)

\* the running operation has returned (or aborted the program)
Returned == pc \in {"idle", "aborted"}

Idx == 1..Len(log)

\* bits 2-4 of a byte, in place
ModeField(v) == ((v \div 4) % 8) * 4

\* bit number b of a byte is set
BitSet(v, b) == (v \div (2 ^ b)) % 2 = 1

IsWrite(i, reg) == log[i].kind = "write" /\ log[i].reg = reg
IsRead(i, reg) == log[i].kind = "read" /\ log[i].reg = reg

\* successful mode-control writes that select the mode with this code
OpModeWrites(code) ==
    {i \in Idx : IsWrite(i, "OpMode") /\ log[i].ok /\ ModeField(log[i].bytes[1]) = code}

\* polls that saw mode-ready (bit 7 of the first status register)
ReadyPolls == {i \in Idx : IsRead(i, "IrqFlags1") /\ log[i].ok /\ BitSet(log[i].bytes[1], 7)}

\* polls of the second status register, and those that saw packet-sent (bit 3)
SentPolls == {i \in Idx : IsRead(i, "IrqFlags2")}
SentSeen == {i \in SentPolls : log[i].ok /\ BitSet(log[i].bytes[1], 3)}

-----------------------------------------------------------------------------
(* C1..C10 *)

\* C1: set_mode(m) called while the cached mode is m returns Ok at once: no
\* transport access, no delay, cached mode and cached power unchanged.
C1_SetModeSameModeIsNoOp ==
    (op = "set_mode" /\ entry.mode = mode /\ pc # "sm_check") =>
        /\ pc = "idle"
        /\ result = "Ok"
        /\ log = <<>>
        /\ current_mode = entry.mode
        /\ tx_power = entry.power

\* the second of two set_mode(Rx) calls has returned
C1_Witness ==
    /\ op = "set_mode" /\ pc = "idle" /\ result = "Ok"
    /\ entry.mode = "Rx" /\ mode = "Rx"

\* the mode codes as C2 lists them
C2_Code == [Sleep |-> 0, Standby |-> 4, Fs |-> 8, Tx |-> 12, Rx |-> 16]

\* C2: the byte set_mode writes to the mode-control register is the byte it
\* read just before with bits 2-4 replaced by the target's code, every other
\* bit kept, for every byte read and every target.
C2_ModeFieldReplaced ==
    \A i \in Idx :
        IsWrite(i, "OpMode") =>
            /\ i > 1
            /\ IsRead(i - 1, "OpMode")
            /\ log[i - 1].ok
            /\ LET v == log[i - 1].bytes[1] IN
               log[i].bytes = <<v - ModeField(v) + C2_Code[mode]>>

\* 0xC4 was read and 0xD0 written for Receive
C2_Witness ==
    \E i \in Idx :
        /\ i > 1
        /\ IsWrite(i, "OpMode")
        /\ mode = "Rx"
        /\ log[i - 1].bytes = <<196>>
        /\ log[i].bytes = <<208>>

\* the test-PA writes C3 expects of a transition to `mode` with the cached power
C3_Expected ==
    IF entry.power >= 18 /\ mode = "Tx" THEN << <<"TestPa1", 93>>, <<"TestPa2", 124>> >>
    ELSE IF entry.power >= 18 /\ mode = "Rx" THEN << <<"TestPa1", 85>>, <<"TestPa2", 112>> >>
    ELSE <<>>

\* C3: a real transition starts with the two test-PA writes (0x5D, 0x7C into
\* Transmit; 0x55, 0x70 into Receive) when the cached power is >= 18, before
\* any access to the mode-control register, and writes no test-PA register
\* otherwise.
C3_TestPaBeforeModeControl ==
    op = "set_mode" =>
        /\ tx_power = entry.power
        /\ (entry.mode # mode /\ Returned) => Len(log) >= 1
        /\ \A i \in Idx :
              IF i <= Len(C3_Expected)
              THEN /\ IsWrite(i, C3_Expected[i][1])
                   /\ log[i].bytes = <<C3_Expected[i][2]>>
              ELSE log[i].reg \notin {"TestPa1", "TestPa2"}

\* a boosted transition into Transmit has completed
C3_Witness ==
    /\ op = "set_mode" /\ pc = "idle" /\ result = "Ok"
    /\ mode = "Tx" /\ entry.power >= 18 /\ entry.mode # "Tx"
    /\ Len(log) >= 5
    /\ IsWrite(4, "OpMode")

\* C4: set_mode caches the target only once a poll has returned mode-ready;
\* a failed transport access ends set_mode with an error and the cached mode
\* is the one from before the call.
C4_CacheOnlyAfterModeReady ==
    op = "set_mode" =>
        /\ current_mode # entry.mode =>
              /\ result = "Ok"
              /\ current_mode = mode
              /\ Len(log) >= 1
              /\ Len(log) \in ReadyPolls
        /\ (\E i \in Idx : ~log[i].ok) =>
              /\ pc = "idle"
              /\ result \in Errors
              /\ ~log[Len(log)].ok
        /\ result \in Errors => current_mode = entry.mode
        /\ result = "Ok" => current_mode = mode

\* set_mode failed on a poll of the status register
C4_Witness ==
    /\ op = "set_mode" /\ pc = "idle" /\ result \in Errors
    /\ mode # entry.mode /\ current_mode = entry.mode
    /\ Len(log) >= 3
    /\ IsRead(Len(log), "IrqFlags1")
    /\ ~log[Len(log)].ok

\* C5: send with more than 60 bytes fails with MessageTooLarge without any
\* transport access or delay, the cached mode unchanged.
C5_SendTooLarge ==
    (op = "send" /\ Len(data) > 60) =>
        /\ pc = "idle"
        /\ result = "MessageTooLarge"
        /\ log = <<>>
        /\ current_mode = entry.mode
        /\ tx_power = entry.power

\* send was refused a 70-byte payload
C5_Witness ==
    /\ op = "send" /\ Len(data) = 70 /\ result = "MessageTooLarge"

\* C6: for 0 <= n <= 60, send issues exactly one FIFO burst, first of all:
\* [n+4, 0xFF, 0xFF, 0x00, 0x00, payload], n+5 bytes, length byte <= 64.
C6_FifoBurst ==
    (op = "send" /\ Len(data) <= 60) =>
        /\ Len(log) >= 1
        /\ IsWrite(1, "Fifo")
        /\ \A i \in 2..Len(log) : log[i].reg # "Fifo"
        /\ LET bytes == log[1].bytes
               n == Len(data) IN
           /\ Len(bytes) = n + 5
           /\ bytes[1] = n + 4
           /\ bytes[1] <= 64
           /\ Len(bytes) - 1 <= 64
           /\ SubSeq(bytes, 2, 5) = <<255, 255, 0, 0>>
           /\ \A i \in 1..n : bytes[5 + i] = data[i]

\* a 60-byte payload was sent
C6_Witness ==
    /\ op = "send" /\ pc = "idle" /\ result = "Ok" /\ Len(data) = 60
    /\ log[1].bytes[1] = 64

\* C7 as stated: every successful send writes the FIFO, writes the Transmit
\* code to the mode-control register, sees mode-ready, sees packet-sent,
\* writes the Standby code, in this order, and ends in Standby.
C7_Original ==
    (op = "send" /\ pc = "idle" /\ result = "Ok") =>
        /\ IsWrite(1, "Fifo")
        /\ \E j \in OpModeWrites(12), r \in ReadyPolls, k \in SentSeen, l \in OpModeWrites(4) :
              1 < j /\ j < r /\ r < k /\ k < l
        /\ \A l \in OpModeWrites(4) : \E k \in SentSeen : k < l
        /\ current_mode = "Standby"

\* C7 amended: as C7, except that a send called while the cached mode is
\* already Transmit issues no mode-control access for the transition to
\* Transmit: the packet-sent polls follow the FIFO burst directly.
C7_SendOrder ==
    (op = "send" /\ pc = "idle" /\ result = "Ok") =>
        /\ IsWrite(1, "Fifo")
        /\ IF entry.mode = "Tx"
           THEN /\ OpModeWrites(12) = {}
                /\ 2 \in SentPolls
           ELSE \E j \in OpModeWrites(12), r \in ReadyPolls :
                   /\ 1 < j /\ j < r
                   /\ \A k \in SentPolls : r < k
        /\ \E k \in SentSeen, l \in OpModeWrites(4), r \in ReadyPolls :
              /\ k < l /\ l < r
              /\ \A k2 \in SentPolls : k2 <= k
        /\ \A l \in OpModeWrites(4) : \E k \in SentSeen : k < l
        /\ current_mode = "Standby"

\* a send from Receive that had to wait for packet-sent has returned Ok
C7_Witness ==
    /\ op = "send" /\ pc = "idle" /\ result = "Ok"
    /\ entry.mode = "Rx"
    /\ SentPolls # SentSeen

\* C8: when the frame a send wrote to its FIFO is what receive reads, receive
\* returns the payload's length and the buffer starts with the payload.
C8_FramingRoundTrip ==
    (op = "receive" /\ air.on /\ Returned /\ \A i \in Idx : log[i].ok) =>
        /\ result = "Ok"
        /\ value = Len(air.payload)
        /\ \A i \in 1..Len(air.payload) : buffer[i] = air.payload[i]

\* a delivered 60-byte payload was received
C8_Witness ==
    /\ op = "receive" /\ air.on /\ pc = "idle" /\ result = "Ok"
    /\ Len(air.payload) = 60
    /\ value = 60

\* C9: is_message_available fails with InvalidMode without any transport
\* access unless the cached mode is Receive; in Receive it reads the second
\* status register once and returns whether bit 0x04 is set.
C9_IsMessageAvailable ==
    op = "is_message_available" =>
        /\ pc = "idle"
        /\ current_mode = entry.mode
        /\ IF entry.mode # "Rx"
           THEN /\ result = "InvalidMode"
                /\ log = <<>>
           ELSE /\ Len(log) = 1
                /\ IsRead(1, "IrqFlags2")
                /\ log[1].ok => (result = "Ok" /\ value = BitSet(log[1].bytes[1], 2))
                /\ ~log[1].ok => result \in Errors

\* in Receive, a set payload-ready bit was reported
C9_Witness ==
    /\ op = "is_message_available" /\ entry.mode = "Rx"
    /\ result = "Ok"
    /\ value = TRUE

\* C10: a length byte above 65 makes receive fail with MessageTooLarge with
\* no further read and nothing written into the buffer.
C10_ReceiveTooLarge ==
    (op = "receive" /\ Len(log) >= 1 /\ log[1].ok /\ log[1].bytes[1] > 65) =>
        /\ pc = "idle"
        /\ result = "MessageTooLarge"
        /\ Len(log) = 1
        /\ \E fill \in Fills : buffer = NewBuffer(fill)

\* a length byte of 66 was refused
C10_Witness ==
    /\ op = "receive" /\ result = "MessageTooLarge"
    /\ log[1].bytes = <<66>>

-----------------------------------------------------------------------------
(* C11..C20 *)

\* C11: for every length byte L <= 65, below 4 included, receive reads the
\* 4-byte header, then reads L-4 payload bytes into buffer[0..L-4] and
\* returns the count L-4, a count between 0 and the buffer's capacity.
C11_ReceiveCount ==
    (/\ op = "receive"
     /\ Returned
     /\ Len(log) >= 1
     /\ \A i \in Idx : log[i].ok
     /\ log[1].bytes[1] <= 65) =>
        LET L == log[1].bytes[1] IN
        /\ result = "Ok"
        /\ Len(log) = 3
        /\ IsRead(2, "Fifo") /\ Len(log[2].bytes) = 4
        /\ IsRead(3, "Fifo") /\ Len(log[3].bytes) = L - 4
        /\ value = L - 4
        /\ value >= 0
        /\ value <= 65
        /\ \A i \in 1..(L - 4) : buffer[i] = log[3].bytes[i]

\* the accesses of the running operation without its delay requests
Accesses == SelectSeq(log, LAMBDA a : a.kind # "delay")

\* the steps of init as C12 lists them, up to the frequency burst
C12_Order ==
    << <<"pin", "set_high">>, <<"pin", "set_low">>, <<"read", "Version">>,
       <<"write", "FifoThresh">>, <<"write", "TestDagc">>, <<"write", "Lna">>,
       <<"write", "SyncConfig">>, <<"write", "TestPa1">>, <<"write", "TestPa2">>,
       <<"write", "DataModul">>, <<"write", "RxBw">>, <<"write", "PacketConfig1">>,
       <<"write", "PreambleMsb">>, <<"write", "PaLevel">>, <<"write", "FrfMsb">> >>

\* the values C12 names
C12_Values == [FifoThresh |-> 143, Lna |-> 136, TestPa1 |-> 85, TestPa2 |-> 112]

\* C12: the accesses of init follow the listed order (reset pulse, version
\* read, FIFO threshold 0x8F, DAGC, LNA 0x88, sync burst, TestPa1 0x55,
\* TestPa2 0x70, modem preset, preamble, power, frequency, then only the
\* transition to Standby), and a failed access is the last access of init,
\* which returns an error at once.
C12_InitOrder ==
    op = "init" =>
        /\ \A i \in 1..Len(Accesses) :
              IF i <= Len(C12_Order)
              THEN /\ Accesses[i].kind = C12_Order[i][1]
                   /\ Accesses[i].reg = C12_Order[i][2]
                   /\ Accesses[i].reg \in DOMAIN C12_Values =>
                         Accesses[i].bytes = <<C12_Values[Accesses[i].reg]>>
              ELSE /\ Accesses[i].reg \in {"OpMode", "IrqFlags1"}
                   /\ Accesses[i].kind = "write" =>
                         ModeField(Accesses[i].bytes[1]) = 4
        /\ \A i \in Idx :
              ~log[i].ok => /\ i = Len(log)
                            /\ pc = "idle"
                            /\ result \in Errors
        /\ (pc = "idle" /\ result = "Ok") =>
              /\ Len(Accesses) >= Len(C12_Order)
              /\ current_mode = "Standby"

\* an init called in Receive has gone through all its steps and returned Ok
C12_Witness ==
    /\ op = "init" /\ pc = "idle" /\ result = "Ok"
    /\ entry.mode = "Rx"
    /\ Len(Accesses) > Len(C12_Order)

\* C13: when the version register reads as anything but 0x24, init fails and
\* has issued no write at all; cached power and cached mode are those from
\* before the call.
C13_WrongVersion ==
    (/\ op = "init"
     /\ \E i \in Idx : IsRead(i, "Version") /\ log[i].ok /\ log[i].bytes # <<36>>) =>
        /\ pc = "idle"
        /\ result \in Errors
        /\ \A i \in Idx : log[i].kind # "write"
        /\ IsRead(Len(log), "Version")
        /\ current_mode = entry.mode
        /\ tx_power = entry.power

\* init read 0x23 as the version while the cached mode was Receive and the
\* cached power 18
C13_Witness ==
    /\ op = "init" /\ pc = "idle" /\ result = "SpiReadError"
    /\ Len(log) >= 1
    /\ log[Len(log)].bytes = <<35>>
    /\ entry.mode = "Rx" /\ entry.power = 18

\* the frequency burst of init
FrfWrites == {i \in Idx : IsWrite(i, "FrfMsb") /\ log[i].ok}

\* C14 as stated: every successful init, on a fresh driver too, writes the
\* Standby code to the mode-control register after the frequency burst, sees
\* mode-ready, and ends with the cached mode Standby.
C14_Original ==
    (op = "init" /\ pc = "idle" /\ result = "Ok") =>
        /\ \E f \in FrfWrites, w \in OpModeWrites(4), r \in ReadyPolls : f < w /\ w < r
        /\ current_mode = "Standby"

\* C14 amended: a successful init ends with set_mode(Standby) after the
\* frequency burst: called with another cached mode it writes the Standby
\* code and sees mode-ready last of all; called with the cached mode Standby
\* (a fresh driver) the frequency burst is its last access.  The cached mode
\* is Standby either way.
C14_InitEndsInStandby ==
    (op = "init" /\ pc = "idle" /\ result = "Ok") =>
        /\ IF entry.mode = "Standby"
           THEN /\ Len(log) \in FrfWrites
                /\ \A i \in Idx : log[i].reg \notin {"OpMode", "IrqFlags1"}
           ELSE \E f \in FrfWrites, w \in OpModeWrites(4) :
                   /\ f < w
                   /\ Len(log) \in ReadyPolls
                   /\ w < Len(log)
                   /\ \A i \in Idx : IsWrite(i, "OpMode") => i = w
        /\ current_mode = "Standby"

\* an init called in Transmit has returned Ok
C14_Witness ==
    /\ op = "init" /\ pc = "idle" /\ result = "Ok"
    /\ entry.mode = "Tx"
    /\ current_mode = "Standby"
    /\ OpModeWrites(4) # {}

\* the byte C15 expects for a requested power: the enable bits and the
\* 5-bit offset of the power clamped to [-2, 20]
C15_Expected(p) ==
    LET q == IF p < -2 THEN -2 ELSE IF p > 20 THEN 20 ELSE p IN
    IF q <= 13 THEN 64 + ((q + 18) % 32)
    ELSE IF q <= 17 THEN 96 + ((q + 14) % 32)
    ELSE 96 + ((q + 11) % 32)

\* C15: on the boosted topology set_tx_power(p) writes, for every i8 p, the
\* byte of the clamped power to the power-amplifier-level register.
C15_ClampedPaLevel ==
    (op = "set_tx_power" /\ is_high_power) =>
        /\ Len(log) = 1
        /\ IsWrite(1, "PaLevel")
        /\ log[1].bytes = <<C15_Expected(arg.tx_power)>>

\* C16: in the byte set_tx_power(p) writes on the boosted topology, PA1 alone
\* is enabled for p <= 13, PA1 and PA2 are enabled for p >= 14, and PA0 never.
C16_EnableBits ==
    (op = "set_tx_power" /\ is_high_power /\ Len(log) >= 1) =>
        LET b == log[1].bytes[1] IN
        /\ IsWrite(1, "PaLevel")
        /\ ~BitSet(b, 7)
        /\ BitSet(b, 6)
        /\ BitSet(b, 5) <=> arg.tx_power >= 14

\* set_tx_power(14) was written with both amplifiers enabled
C16_Witness ==
    /\ op = "set_tx_power" /\ result = "Ok"
    /\ arg.tx_power = 14
    /\ BitSet(log[1].bytes[1], 5) /\ BitSet(log[1].bytes[1], 6)

\* C17: a successful set_tx_power(p) caches p itself, which set_mode then
\* compares with 18; a failed write returns an error with the cached power
\* unchanged; the cached mode never changes.
C17_PowerCachedVerbatim ==
    /\ op = "set_tx_power" =>
          /\ current_mode = entry.mode
          /\ result = "Ok" => (tx_power = arg.tx_power /\ log[1].ok)
          /\ result # "Ok" => tx_power = entry.power
          /\ (Len(log) >= 1 /\ ~log[1].ok) => result \in Errors
    /\ (/\ op = "set_mode"
        /\ entry.power > 20
        /\ mode \in {"Tx", "Rx"}
        /\ mode # entry.mode
        /\ Len(log) >= 1) => IsWrite(1, "TestPa1")

\* set_tx_power(25) succeeded and the transition to Transmit that followed
\* wrote the boost registers
C17_Witness ==
    /\ op = "set_mode" /\ pc = "idle" /\ result = "Ok"
    /\ mode = "Tx"
    /\ tx_power = 25
    /\ IsWrite(1, "TestPa1") /\ log[1].bytes = <<93>>

\* C18: for the register whose opcodes were computed, the address is at most
\* 0x7F, the write opcode is the read opcode with bit 7 set, the read opcode
\* is the write opcode with bit 7 cleared, and the read opcode is the write
\* opcode of no register.
C18_Opcodes ==
    op = "opcodes" =>
        /\ Register[arg.register] <= 127
        /\ value.write = value.read + 128
        /\ value.read = value.write % 128
        /\ \A b \in 0..6 : BitSet(value.read, b) <=> BitSet(value.write, b)
        /\ ~BitSet(value.read, 7) /\ BitSet(value.write, 7)
        /\ \A r \in DOMAIN Register : value.read # RegWrite(r) /\ value.write # RegRead(r)

\* the opcodes of the highest register, TestDagc: 0x6F and 0xEF
C18_Witness ==
    /\ op = "opcodes"
    /\ arg.register = "TestDagc"
    /\ value = [read |-> 111, write |-> 239]

\* the value C19 gives for a configuration and a word count
C19_Encode(config, n) ==
    LET words == IF n < 1 THEN 1 ELSE IF n > 8 THEN 8 ELSE n
        tol == IF config.sync_tolerance > 7 THEN 7 ELSE config.sync_tolerance
    IN  IF config.kind = "SyncOff" THEN 0
        ELSE 128 + (IF config.kind = "FifoFillManual" THEN 64 ELSE 0)
                 + (words - 1) * 8 + tol

\* C19: the sync encoder returns 0 for Off and, for AutoFill and ManualFill,
\* 0x80 (0xC0 for ManualFill) with the clamped word count minus one in bits
\* 3-5 and the clamped tolerance in bits 0-2, for every word count and every
\* tolerance in 0..255; a tolerance above 7 encodes as 7.
C19_SyncEncoder ==
    op = "sync_value" =>
        /\ value = C19_Encode(arg.config, arg.sync_size)
        /\ arg.config.sync_tolerance > 7 =>
              value = C19_Encode([arg.config EXCEPT !.sync_tolerance = 7], arg.sync_size)
        /\ arg.sync_size = 8 =>
              /\ arg.config = FifoFillAuto(14) => value = 191
              /\ arg.config = FifoFillAuto(7) => value = 191
              /\ arg.config = FifoFillAuto(0) => value = 184
              /\ arg.config = FifoFillManual(0) => value = 248
              /\ arg.config = FifoFillManual(7) => value = 255

\* AutoFill with tolerance 14 and 8 words was encoded as 191
C19_Witness ==
    /\ op = "sync_value"
    /\ arg = [config |-> FifoFillAuto(14), sync_size |-> 8]
    /\ value = 191

\* C20: set_sync_words with no word or with more than 8 words fails with
\* ConfigurationError without a transport write; with 1 to 8 words it issues
\* its write and fails only if the transport does.
C20_SyncWordCount ==
    op = "set_sync_words" =>
        LET n == Len(arg.sync_words) IN
        /\ pc = "idle"
        /\ (n = 0 \/ n > 8) => (result = "ConfigurationError" /\ log = <<>>)
        /\ (1 <= n /\ n <= 8) =>
              /\ Len(log) = 1
              /\ IsWrite(1, "SyncConfig")
              /\ result # "ConfigurationError"
              /\ log[1].ok <=> result = "Ok"

\* an empty word list was refused
C20_Witness ==
    /\ op = "set_sync_words"
    /\ arg.sync_words = <<>>
    /\ result = "ConfigurationError"
    /\ log = <<>>

-----------------------------------------------------------------------------
(* C21..C30 *)

\* C21: for a word list of n words, 1 <= n <= 8, set_sync_words issues one
\* burst write to the sync-configuration register with exactly n+1 bytes:
\* the config byte, then the n words.
C21_SyncBurst ==
    (/\ op = "set_sync_words"
     /\ Len(arg.sync_words) >= 1
     /\ Len(arg.sync_words) <= 8) =>
        /\ Len(log) = 1
        /\ IsWrite(1, "SyncConfig")
        /\ Len(log[1].bytes) = Len(arg.sync_words) + 1
        /\ log[1].bytes =
              <<C19_Encode(arg.config, Len(arg.sync_words))>> \o arg.sync_words

\* the synthesizer word of C22: the truncated quotient of freq_mhz * 2^19 by 32
C22_IsWord(word, freq_mhz) ==
    /\ word * 32 <= freq_mhz * 524288
    /\ freq_mhz * 524288 < (word + 1) * 32

\* C22: set_frequency burst-writes three bytes to the most significant
\* frequency register; when the synthesizer word fits 24 bits they are the
\* word, most significant byte first; 915 MHz gives [0xE4, 0xC0, 0x00].
C22_FrequencyWord ==
    op = "set_frequency" =>
        /\ Len(log) = 1
        /\ IsWrite(1, "FrfMsb")
        /\ Len(log[1].bytes) = 3
        /\ \A i \in 1..3 : log[1].bytes[i] \in Bytes
        /\ LET b == log[1].bytes
               word == b[1] * 65536 + b[2] * 256 + b[3] IN
           arg.freq_mhz * 16384 < 16777216 => C22_IsWord(word, arg.freq_mhz)
        /\ arg.freq_mhz = 915 => log[1].bytes = <<228, 192, 0>>
        /\ log[1].ok <=> result = "Ok"

\* the frequency was set to 915 MHz
C22_Witness ==
    /\ op = "set_frequency" /\ result = "Ok"
    /\ arg.freq_mhz = 915
    /\ log[1].bytes = <<228, 192, 0>>

\* an access that is a successful read of Temp1, with the running bit as given
TempSeen(i, running) ==
    /\ IsRead(i, "Temp1")
    /\ log[i].ok
    /\ BitSet(log[i].bytes[1], 2) = running

PollLoops ==
    {[poll |-> "sm_poll", delay |-> "sm_delay", reg |-> "IrqFlags1", bit |-> 7, waiting |-> FALSE],
     [poll |-> "send_wait", delay |-> "send_wait_delay", reg |-> "IrqFlags2", bit |-> 3, waiting |-> FALSE],
     [poll |-> "temp_poll", delay |-> "temp_delay", reg |-> "Temp1", bit |-> 2, waiting |-> TRUE]}

\* the access a step has just issued
Issued == log'[Len(log')]

Failed == {i \in Idx : ~log[i].ok}

\* C25: the first transport access that fails makes the operation return an
\* error value at once: the failed access is the operation's last one, it is
\* the only failed one, and the operation has returned an error kind instead
\* of aborting the program.
C25_FailureReturnsError ==
    Failed # {} =>
        /\ Failed = {Len(log)}
        /\ pc = "idle"
        /\ result \in Errors

\* C26: the error kind matches the failed transaction: an operation whose
\* transport read failed reports SpiReadError, one whose transport write
\* failed reports SpiWriteError.
C26_ErrorKinds ==
    \A i \in Failed :
        pc = "idle" =>
            /\ log[i].kind = "read" => result = "SpiReadError"
            /\ log[i].kind = "write" => result = "SpiWriteError"

\* the addresses of the four test registers of the register map
C27_TestRegisters == <<88, 90, 92, 111>>

\* C27: the list read_all_registers returns is the core bank, from one burst
\* read that starts at the mode-control register, paired with the ascending
\* addresses 0x01..0x4F, followed by exactly four individually read test
\* registers (0x58, 0x5A, 0x5C, 0x6F), each paired with its own address;
\* there are no other reads and no other entries.
C27_RegisterDump ==
    (op = "read_all_registers" /\ pc = "idle" /\ result = "Ok") =>
        /\ log[1].kind = "read" /\ log[1].reg = "OpMode" /\ Len(log[1].bytes) = 79
        /\ \A i \in 1..79 : value[i] = Pair(i, log[1].bytes[i])
        /\ Len(log) = 1 + 4
        /\ Len(value) = 79 + 4
        /\ \A j \in 1..4 :
             /\ log[1 + j].kind = "read"
             /\ Register[log[1 + j].reg] = C27_TestRegisters[j]
             /\ value[79 + j] = Pair(C27_TestRegisters[j], log[1 + j].bytes[1])

\* C28: a newly constructed driver has cached power 13, the boosted-topology
\* flag true and cached mode Standby, and construction has issued no
\* transport access, no reset-line access and no delay.
C28_NewDriver ==
    op = "new" =>
        /\ tx_power = 13
        /\ is_high_power = TRUE
        /\ current_mode = "Standby"
        /\ log = <<>>
        /\ pc = "idle"
        /\ result = "Ok"

\* the driver as the constructor returned it, before any operation
C28_Witness ==
    /\ op = "new"
    /\ pc = "idle"
    /\ Len(log) = 0
    /\ driver = <<"Standby", 13, TRUE>>

\* the status and diagnostic operations
StatusOps == {"is_message_available", "receive", "rssi", "read_revision",
              "read_temperature", "read_all_registers"}

\* C29: every step of is_message_available, receive, rssi, read_revision,
\* read_temperature and read_all_registers, the call itself included, leaves
\* the cached mode, the cached power and the topology flag as they were,
\* whether the operation goes on, succeeds or fails; the only register write
\* any of them issues is read_temperature's first access, 0x08 to Temp1.
C29_StatusOpsChangeNothing ==
    [][op' \in StatusOps =>
         /\ driver' = driver
         /\ current_mode' = entry'.mode
         /\ tx_power' = entry'.power
         /\ \A i \in 1..Len(log') :
              log'[i].kind = "write" =>
                  /\ op' = "read_temperature"
                  /\ i = 1
                  /\ log'[i].reg = "Temp1"
                  /\ log'[i].bytes = <<8>>]_vars

\* read_temperature failed after its start-measurement write, on a driver
\* whose cached mode and power are not the constructor's
C29_Witness ==
    /\ op = "read_temperature"
    /\ pc = "idle"
    /\ result \in Errors
    /\ Len(log) >= 2
    /\ log[1].kind = "write"
    /\ current_mode = "Rx"
    /\ tx_power = 18

\* send has returned a transport error after its transition to Transmit: the
\* packet-sent poll has been reached
C30_FailedAfterTx ==
    /\ op = "send"
    /\ pc = "idle"
    /\ result \in {"SpiWriteError", "SpiReadError"}
    /\ SentPolls # {}

\* C30: send rolls nothing back.  When send returns a transport error after
\* its transition to Transmit (a failed packet-sent poll, or a failure inside
\* the transition to Standby), the cached mode is Transmit, the frame is
\* still the one successful access to the FIFO, and a set_mode(Transmit)
\* called next finds the cached mode equal to its target and returns Ok
\* without any access.
C30_SendNoRollback ==
    [][/\ C30_FailedAfterTx' =>
            /\ current_mode' = "Tx"
            /\ {i \in 1..Len(log') : log'[i].reg = "Fifo"} = {1}
            /\ log'[1] = Write("Fifo", Frame(data'), TRUE)
       /\ (C30_FailedAfterTx /\ op' = "set_mode" /\ mode' = "Tx") =>
            /\ pc' = "sm_check"
            /\ entry'.mode = "Tx"
            /\ log' = <<>>
            /\ driver' = driver
       /\ (op = "set_mode" /\ pc = "sm_check" /\ mode = "Tx" /\ entry.mode = "Tx") =>
            /\ pc' = "idle"
            /\ result' = "Ok"
            /\ log' = <<>>
            /\ driver' = driver]_vars

\* send failed inside its transition to Standby, after packet-sent was seen
C30_Witness ==
    /\ C30_FailedAfterTx
    /\ SentSeen # {}
    /\ ~log[Len(log)].ok
    /\ log[Len(log)].reg \in {"OpMode", "IrqFlags1"}
    /\ entry.mode # "Tx"
    /\ current_mode = "Tx"

-----------------------------------------------------------------------------
(* C31..C38 *)

\* the reset pulse when every access to the line succeeds
C31_Pulse == <<Pin("set_high", TRUE), Delay("us", 100), Pin("set_low", TRUE), Delay("ms", 5)>>

\* the accesses to the transport
Transport == {i \in Idx : log[i].kind \in {"read", "write"}}

RECURSIVE Written(_)
Written(n) == IF n = 0 THEN <<>> ELSE Written(n - 1) \o log[n].bytes

\* C32: applying a modem preset with vector v issues a 5-byte burst to
\* DataModul, then a 2-byte burst to RxBw, then one byte to PacketConfig1,
\* which together carry v[1..8] in order, every byte once; a write that
\* fails is the last one issued, and Ok means all three were done.
C32_ModemWrites ==
    op = "set_modem_config" =>
        LET v == ModemValues[arg.config]
            regs == <<"DataModul", "RxBw", "PacketConfig1">>
            lens == <<5, 2, 1>>
        IN /\ Len(log) \in 1..3
           /\ \A i \in Idx :
                /\ log[i].kind = "write"
                /\ log[i].reg = regs[i]
                /\ Len(log[i].bytes) = lens[i]
                /\ ~log[i].ok => (i = Len(log) /\ result = "SpiWriteError")
           /\ Written(Len(log)) = SubSeq(v, 1, Len(Written(Len(log))))
           /\ result = "Ok" <=> (Len(log) = 3 /\ \A i \in Idx : log[i].ok)
           /\ result = "Ok" => Written(3) = v

\* the preset that init selects has been applied
C32_Witness ==
    /\ op = "set_modem_config"
    /\ result = "Ok"
    /\ arg.config = "GfskRb250Fd250"
    /\ log = <<Write("DataModul", <<1, 0, 128, 16, 0>>, TRUE),
               Write("RxBw", <<224, 224>>, TRUE),
               Write("PacketConfig1", <<208>>, TRUE)>>

\* C33: whenever the cached mode is Receive between operations, the chip's
\* test-PA registers hold the baseline values 0x55 and 0x70.
C33_BaselineInReceive ==
    (pc = "idle" /\ current_mode = "Rx") =>
        (chip.test_pa1 = 85 /\ chip.test_pa2 = 112)

\* C34: whenever the cached mode is Transmit and the cached power is 18 or
\* more between operations, the chip's test-PA registers hold the boost
\* values 0x5D and 0x7C.
C34_BoostInTransmit ==
    (pc = "idle" /\ current_mode = "Tx" /\ tx_power >= 18) =>
        (chip.test_pa1 = 93 /\ chip.test_pa2 = 124)

\* C35: with a chip that is in Standby at power-up and after every reset
\* pulse and whose mode field is set by a mode-control write, after any
\* sequence of operations that each returned Ok the cached mode is the mode
\* the chip is in.
C35_CacheMatchesChip ==
    pc = "idle" => ModeCode(current_mode) = chip.mode

\* init returned Ok on a driver that was in Receive: the reset pulse had put
\* the chip in Standby while the cached mode still was Receive
C35_Witness ==
    /\ op = "init"
    /\ pc = "idle"
    /\ result = "Ok"
    /\ entry.mode = "Rx"
    /\ current_mode = "Standby"
    /\ chip.mode = 4
    /\ OpModeWrites(4) # {}

\* C36: with the same chip, after any sequence of operations, failed ones
\* included, is_message_available returns Ok only when the chip's mode
\* field is Receive.
C36_AvailableOnlyInReceive ==
    (op = "is_message_available" /\ pc = "idle" /\ result = "Ok") =>
        chip.mode = ModeCode("Rx")

\* C37: the topology flag is true in every reachable state, set_tx_power
\* takes the boosted branch, and no byte written to PaLevel has the PA0
\* enable bit (bit 7) set.
C37_AlwaysBoosted ==
    /\ is_high_power = TRUE
    /\ \A i \in Idx :
         IsWrite(i, "PaLevel") =>
             /\ ~BitSet(log[i].bytes[1], 7)
             /\ BitSet(log[i].bytes[1], 6)
    /\ (op = "set_tx_power" /\ log # <<>>) =>
         log[1].bytes = <<PaLevel(TRUE, arg.tx_power)>>

\* set_tx_power(-18), the lowest power of the non-boosted topology, has
\* written its byte
C37_Witness ==
    /\ op = "set_tx_power"
    /\ arg.tx_power = -18
    /\ result = "Ok"
    /\ IsWrite(1, "PaLevel")
    /\ log[1].ok

\* C38: when every transport access succeeds and the chip reports mode-ready
\* and packet-sent in the end, a send of at most 60 bytes that is running
\* returns Ok, and a set_mode that is running returns Ok with the cached
\* mode equal to its target.
C38_Termination ==
    /\ (op = "send" /\ pc # "idle" /\ Len(data) <= 60)
          ~> (op = "send" /\ pc = "idle" /\ result = "Ok")
    /\ \A m \in Modes :
          (op = "set_mode" /\ pc # "idle" /\ mode = m)
             ~> (op = "set_mode" /\ pc = "idle" /\ result = "Ok" /\ current_mode = m)

\* a send of 60 bytes returned Ok after each of its three loops had to poll
\* more than once
C38_Witness ==
    /\ op = "send"
    /\ pc = "idle"
    /\ result = "Ok"
    /\ Len(data) = 60
    /\ Cardinality(SentPolls \ SentSeen) = MaxPolls
    /\ Cardinality({i \in Idx : IsRead(i, "IrqFlags1")} \ ReadyPolls) = 2 * MaxPolls

====
